---- MODULE Spec2Model ----
(***************************************************************************)
(* Wrestling Team Manager: the dual-meet wizard (DualMeetCreation), its    *)
(* match-order preview and the dual meets it stores; the pairings of       *)
(* CompetitionSetup; MatchControl with the match kept by MemStorage; the    *)
(* teams, wrestlers and competitions of useWrestlingData and MemStorage    *)
(* with the routes between them; and the VideoRecorder.                    *)
(*                                                                         *)
(* Arrays are sequences; JavaScript's 0-based indices are kept in the      *)
(* helper operators (IndexOf, Slice) and shifted by one only where a       *)
(* sequence is read.  A React handler and the effects its re-render runs   *)
(* form one action.  The rosters (homeRoster, awayRoster) are copied into  *)
(* the stored dual meet unread and are left out.                           *)
(***************************************************************************)
EXTENDS Integers, Sequences, FiniteSets, TLC

VARIABLES
    \* ---- DualMeetCreation component state (dual-meet-creation.tsx:22-37)
    dualMeetName,
    homeTeamId,
    awayTeamId,
    homeTeamName,
    awayTeamName,
    isHomeTeamCustom,
    isAwayTeamCustom,
    gradeLevel,
    selectedWeightClasses,
    startingWeightClass,
    customWeightClasses,
    useCustomWeights,
    homeTeamOddsOrEvens,
    currentStep,
    \* ---- useWrestlingData().teams, as loaded
    teams,
    \* ---- localStorage['wrestling-dual-meets']
    dualMeets,
    \* ---- one evaluation of the match-order computation on given inputs
    argWeightClasses,
    argStartingWeightClass,
    argChoiceParity,
    boutOrder,
    computed

VARIABLES
    \* ---- useWrestlingData().wrestlers, as loaded (part_003:7)
    wrestlers,
    \* ---- CompetitionSetup: one competition card and the pairings rendered for it
    competition,
    potentialMatches,
    generated

VARIABLES
    \* ---- MemStorage.matches: the stored match (part_005:40)
    storedMatch,
    \* ---- useWrestlingData().matches of the mounted MatchControl: its copy of the match
    matches,
    \* ---- MatchControl props and state (match-control-new.tsx:587, 606-611)
    selectedMatchId,
    selectedMatch,
    currentTime,
    isRunning,
    myScore,
    opponentScore,
    \* the component is on screen
    mounted,
    \* ---- PATCH /api/matches/:id requests and responses on their way
    inflight,
    \* calls of updateMatch so far
    updatesSent,
    \* ---- the last object handed to createEventLog (part_003:143-147)
    lastEventLog,
    \* ---- history: the scores the match was created with plus every point that
    \* addPoints was called with since
    awardedScore

VARIABLES
    \* ---- MemStorage.teams and MemStorage.wrestlers, in insertion order (part_005:37-38)
    storageTeams,
    storageWrestlers,
    \* ---- DELETE /api/teams/:id requests and responses on their way
    teamDeletes

VARIABLES
    \* ---- WrestlingApp: how often onDualMeetCreated was called (part_004:35-37)
    dualMeetCreatedCalls,
    \* ---- useWrestlingData().competitions of CompetitionSetup (part_003:8)
    competitions,
    \* ---- MemStorage.competitions, in insertion order (part_005:39)
    storageCompetitions,
    \* ---- requests to /api/competitions and their responses on their way
    competitionCalls,
    \* ---- the title of the last toast of CompetitionSetup
    toast,
    \* ---- VideoRecorder fields (video-recorder.ts:9-11)
    stream,
    mediaRecorder,
    recordedChunks,
    \* a stopped MediaRecorder still owes its last dataavailable and stop events
    stopping,
    \* the last call of a VideoRecorder method and the error it threw, if any
    recorderResult,
    \* ---- the answer of the last PATCH route of the server (routes.ts)
    routeResponse

wizardVars == <<dualMeetName, homeTeamId, awayTeamId, homeTeamName, awayTeamName,
                isHomeTeamCustom, isAwayTeamCustom, gradeLevel, selectedWeightClasses,
                startingWeightClass, customWeightClasses, useCustomWeights,
                homeTeamOddsOrEvens, currentStep, teams, dualMeets>>

orderVars == <<argWeightClasses, argStartingWeightClass, argChoiceParity, boutOrder, computed>>

pairingVars == <<wrestlers, competition, potentialMatches, generated>>

matchVars == <<storedMatch, matches, selectedMatchId, selectedMatch, currentTime, isRunning,
               myScore, opponentScore, mounted, inflight, updatesSent, lastEventLog,
               awardedScore>>

storageVars == <<storageTeams, storageWrestlers, teamDeletes>>

competitionVars == <<competitions, storageCompetitions, competitionCalls, toast>>

recorderVars == <<stream, mediaRecorder, recordedChunks, stopping, recorderResult>>

\* MatchControl's own state: matchVars without the stored match and the hook's copy
controlVars == <<selectedMatchId, selectedMatch, currentTime, isRunning, myScore,
                 opponentScore, mounted, inflight, updatesSent, lastEventLog, awardedScore>>

\* the wizard's own state: wizardVars without the loaded teams
formVars == <<dualMeetName, homeTeamId, awayTeamId, homeTeamName, awayTeamName,
              isHomeTeamCustom, isAwayTeamCustom, gradeLevel, selectedWeightClasses,
              startingWeightClass, customWeightClasses, useCustomWeights,
              homeTeamOddsOrEvens, currentStep, dualMeets>>

\* everything the wizard never touches
besideWizard == <<orderVars, pairingVars, matchVars, storageVars, competitionVars,
                  recorderVars, routeResponse, dualMeetCreatedCalls>>

\* everything MatchControl never touches
besideMatch == <<wizardVars, orderVars, pairingVars, storageVars, competitionVars,
                 recorderVars, routeResponse, dualMeetCreatedCalls, awardedScore>>

\* everything the lists of useWrestlingData and the maps of MemStorage never touch
besideData == <<formVars, orderVars, competition, potentialMatches, generated, controlVars,
                competitionCalls, toast, recorderVars, dualMeetCreatedCalls>>

vars == <<wizardVars, orderVars, pairingVars, matchVars, storageVars, competitionVars,
          recorderVars, routeResponse, dualMeetCreatedCalls>>

-----------------------------------------------------------------------------
(* Bounds of the model *)

\* longest weight-class list handed to one evaluation of the computation
MaxLen == 4

\* most standard weight classes the modelled user has deselected at a time
MaxDeselected == 1

\* most dual meets created in one session
MaxDualMeets == 2

\* most calls of updateMatch while one match is under control
MaxUpdates == 2

\* most competitions created in one session
MaxCompetitions == 2

\* most chunks a VideoRecorder holds
MaxChunks == 2

-----------------------------------------------------------------------------
(* Program constants *)

\* useState<number | null>(null): the value of "no starting weight class"
null == -1

\* a token of the custom entry that parseInt maps to NaN
NaN == -2

youthWeightClasses ==
    [g \in {"k-2", "3-4", "5-6", "7-8", "high-school", "college", "senior"} |->
        CASE g = "k-2" -> <<40, 45, 50, 55, 60, 65, 70, 75, 80, 85, 90, 95, 100, 105, 110>>
          [] g = "3-4" -> <<50, 55, 60, 65, 70, 75, 80, 85, 90, 95, 100, 105, 110, 115, 120,
                            125, 130>>
          [] g = "5-6" -> <<60, 65, 70, 75, 80, 85, 90, 95, 100, 105, 110, 115, 120, 125, 130,
                            135, 140, 145>>
          [] g = "7-8" -> <<70, 75, 80, 85, 90, 95, 100, 105, 110, 115, 120, 125, 130, 135,
                            140, 145, 150, 155, 160, 165>>
          [] g = "high-school" -> <<106, 113, 120, 126, 132, 138, 144, 150, 157, 165, 175,
                                    190, 215, 285>>
          [] g = "college" -> <<125, 133, 141, 149, 157, 165, 174, 184, 197, 285>>
          [] g = "senior" -> <<57, 61, 65, 70, 74, 79, 86, 92, 97, 125>>]

YouthGradeLevel == DOMAIN youthWeightClasses

-----------------------------------------------------------------------------
(* JavaScript array and number helpers *)

Min(a, b) == IF a < b THEN a ELSE b

Max(a, b) == IF a > b THEN a ELSE b

\* a % b of JavaScript: the result takes the sign of the dividend
JsRem(a, b) == IF a >= 0 THEN a % b ELSE -((-a) % b)

\* !x for a number | null
Falsy(x) == x = null \/ x = 0 \/ x = NaN

Range(s) == {s[i] : i \in DOMAIN s}

Includes(s, x) == x \in Range(s)

\* Array.prototype.indexOf: 0-based index of the first occurrence, -1 if none
IndexOf(s, x) ==
    IF Includes(s, x)
    THEN (CHOOSE i \in DOMAIN s : s[i] = x /\ \A j \in 1..(i-1) : s[j] # x) - 1
    ELSE -1

\* Array.prototype.slice(from, to): negative indices count from the end
SliceIndex(s, k) == IF k < 0 THEN Max(Len(s) + k, 0) ELSE Min(k, Len(s))

Slice(s, from, to) ==
    LET a == SliceIndex(s, from)
        b == SliceIndex(s, to)
    IN  IF a < b THEN [i \in 1..(b - a) |-> s[a + i]] ELSE <<>>

RECURSIVE Insert(_, _)
Insert(s, x) ==
    IF s = <<>> THEN <<x>>
    ELSE IF x < Head(s) THEN <<x>> \o s
    ELSE <<Head(s)>> \o Insert(Tail(s), x)

\* Array.prototype.sort((a, b) => a - b)
RECURSIVE SortAsc(_)
SortAsc(s) == IF s = <<>> THEN <<>> ELSE Insert(SortAsc(Tail(s)), Head(s))

\* String.prototype.trim, on the strings the model types
Trim(s) ==
    CASE s = " " -> ""
      [] s = " 106" -> "106"
      [] s = " 113" -> "113"
      [] s = " 120" -> "120"
      [] s = " 126" -> "126"
      [] OTHER -> s

\* parseInt, on the (trimmed) strings the model types
ParseInt(s) ==
    CASE s = "0" -> 0
      [] s = "106" -> 106
      [] s = "113" -> 113
      [] s = "120" -> 120
      [] s = "126" -> 126
      [] OTHER -> NaN

IsNaN(x) == x = NaN

-----------------------------------------------------------------------------
(* The match-order computation (Match Order Preview and the stored choice list) *)

\* faulty variant: the second slice starts one past the first bout, losing a weight class
OrderedMatchesOffByOne(selected, starting) ==
    LET startIndex == IndexOf(selected, starting)
    IN  Slice(selected, startIndex, Len(selected)) \o Slice(selected, 1, startIndex)

\* faulty variant: the two slices concatenated the other way round (no rotation)
OrderedMatchesUnrotated(selected, starting) ==
    LET startIndex == IndexOf(selected, starting)
    IN  Slice(selected, 0, startIndex) \o Slice(selected, startIndex, Len(selected))

\* [...selected.slice(startIndex), ...selected.slice(0, startIndex)]
OrderedMatches(selected, starting) ==
    LET startIndex == IndexOf(selected, starting)
    IN  Slice(selected, startIndex, Len(selected)) \o Slice(selected, 0, startIndex)

\* faulty variant: the parity test of generateHomeTeamChoiceMatches, used in the preview
HomeGetsChoiceSwapped(parity, index) ==
    LET isEvenPosition == JsRem(index, 2) = 0
    IN  \/ parity = "evens" /\ isEvenPosition
        \/ parity = "odds" /\ ~isEvenPosition

\* homeGetsChoice of the bout at 0-based position index of the preview
HomeGetsChoice(parity, index) ==
    LET isEvenPosition == JsRem(index, 2) = 0
    IN  \/ parity = "evens" /\ ~isEvenPosition
        \/ parity = "odds" /\ isEvenPosition

\* faulty variant: choice by the index in the selection, not the rotated position
MatchOrderByListIndex(selected, starting, parity) ==
    LET orderedMatches == OrderedMatches(selected, starting)
    IN  [i \in 1..Len(orderedMatches) |->
            [position |-> i,
             weightClass |-> orderedMatches[i],
             choiceHolder |-> IF HomeGetsChoice(parity, IndexOf(selected, orderedMatches[i]))
                              THEN "home" ELSE "away"]]

\* the rows of the preview: Match position: weightClass lbs, and whose choice it is
MatchOrder(selected, starting, parity) ==
    LET orderedMatches == OrderedMatches(selected, starting)
    IN  [i \in 1..Len(orderedMatches) |->
            [position |-> i,
             weightClass |-> orderedMatches[i],
             choiceHolder |-> IF HomeGetsChoice(parity, i - 1) THEN "home" ELSE "away"]]

\* is the weight class at 0-based index of the selection pushed to choiceMatches
PushesChoice(selected, starting, parity, index) ==
    LET startIndex == IndexOf(selected, starting)
        adjustedIndex == JsRem(startIndex + index, Len(selected))
        isEvenPosition == JsRem(adjustedIndex, 2) = 0
    IN  \/ parity = "evens" /\ isEvenPosition
        \/ parity = "odds" /\ ~isEvenPosition

RECURSIVE ChoiceMatchesFrom(_, _, _, _)
ChoiceMatchesFrom(selected, starting, parity, index) ==
    IF index >= Len(selected) THEN <<>>
    ELSE (IF PushesChoice(selected, starting, parity, index)
          THEN <<selected[index + 1]>> ELSE <<>>)
         \o ChoiceMatchesFrom(selected, starting, parity, index + 1)

GenerateHomeTeamChoiceMatches(selected, starting, parity) ==
    IF Falsy(starting) THEN <<>> ELSE ChoiceMatchesFrom(selected, starting, parity, 0)

-----------------------------------------------------------------------------
(* The wizard: derived values of one render *)

\* customWeightClasses.split(',').map(w => parseInt(w.trim())).filter(w => !isNaN(w)),
\* or the standard list of the grade level.  The custom entry is held as its
\* comma-separated pieces.
AvailableWeightClasses(custom, grade, text) ==
    IF custom
    THEN LET parsed == [i \in DOMAIN text |-> ParseInt(Trim(text[i]))]
             NotNaN(w) == ~IsNaN(w)
         IN  SelectSeq(parsed, NotNaN)
    ELSE youthWeightClasses[grade]

availableWeightClasses ==
    AvailableWeightClasses(useCustomWeights, gradeLevel, customWeightClasses)

\* customWeightClasses.trim() === ''
CustomEntryBlank(text) == Len(text) = 1 /\ Trim(text[1]) = ""

\* teams.find(t => t.id === id)?.name, "" standing for undefined
TeamNameOf(id) ==
    IF \E i \in DOMAIN teams : teams[i].id = id
    THEN teams[CHOOSE i \in DOMAIN teams :
                  teams[i].id = id /\ \A j \in 1..(i-1) : teams[j].id # id].name
    ELSE ""

DisplayName(isCustom, name, id) == IF isCustom THEN name ELSE TeamNameOf(id)

\* the effect of lines 57-63, run after a render whose gradeLevel, useCustomWeights
\* or availableWeightClasses differ from the previous render's.  In custom mode
\* availableWeightClasses is a fresh array on every render, so the effect runs
\* after every render.  Gives <<selectedWeightClasses, startingWeightClass>>.
AutoSelect(grade, custom, text, selected, starting) ==
    LET available == AvailableWeightClasses(custom, grade, text)
        depsChanged == custom \/ grade # gradeLevel \/ custom # useCustomWeights
    IN  IF depsChanged /\ (~custom \/ Len(available) > 0)
        THEN <<available, available[1]>>
        ELSE <<selected, starting>>

\* the effect of lines 48-55, run when a team, a typed team name or a custom flag
\* changed: gives dualMeetName
AutoName(hId, aId, hName, aName, hCustom, aCustom) ==
    LET homeDisplayName == DisplayName(hCustom, hName, hId)
        awayDisplayName == DisplayName(aCustom, aName, aId)
        depsChanged == <<hId, aId, hName, aName, hCustom, aCustom>> #
                       <<homeTeamId, awayTeamId, homeTeamName, awayTeamName,
                         isHomeTeamCustom, isAwayTeamCustom>>
    IN  IF depsChanged /\ homeDisplayName # "" /\ awayDisplayName # ""
        THEN homeDisplayName \o " vs " \o awayDisplayName
        ELSE dualMeetName

\* is the Match Order Preview on screen
PreviewShown == currentStep = 2 /\ ~Falsy(startingWeightClass)

MatchOrderPreview ==
    MatchOrder(selectedWeightClasses, startingWeightClass, homeTeamOddsOrEvens)

-----------------------------------------------------------------------------
(* The wizard: state after the first render and its effects *)

LoadedTeams == <<[id |-> "t1", name |-> "Eagles"], [id |-> "t2", name |-> "Lions"]>>

WizardMounted ==
    /\ dualMeetName = ""
    /\ homeTeamId = ""
    /\ awayTeamId = ""
    /\ homeTeamName = ""
    /\ awayTeamName = ""
    /\ isHomeTeamCustom = FALSE
    /\ isAwayTeamCustom = FALSE
    /\ gradeLevel = "high-school"
    /\ selectedWeightClasses = youthWeightClasses["high-school"]
    /\ startingWeightClass = youthWeightClasses["high-school"][1]
    /\ customWeightClasses = <<"">>
    /\ useCustomWeights = FALSE
    /\ homeTeamOddsOrEvens = "odds"
    /\ currentStep = 1
    /\ teams = LoadedTeams
    /\ dualMeets = <<>>
    /\ dualMeetCreatedCalls = 0

-----------------------------------------------------------------------------
(* The wizard: handlers.  Each is the handler and the effects of its re-render. *)

\* step 1: <Select value={gradeLevel} onValueChange=...>
SetGradeLevel(value) ==
    /\ currentStep = 1
    /\ gradeLevel' = value
    /\ LET auto == AutoSelect(value, useCustomWeights, customWeightClasses,
                              selectedWeightClasses, startingWeightClass)
       IN  /\ selectedWeightClasses' = auto[1]
           /\ startingWeightClass' = auto[2]
    /\ UNCHANGED <<dualMeetName, homeTeamId, awayTeamId, homeTeamName, awayTeamName,
                   isHomeTeamCustom, isAwayTeamCustom, customWeightClasses,
                   useCustomWeights, homeTeamOddsOrEvens, currentStep, teams, dualMeets>>
    /\ UNCHANGED besideWizard

\* step 1: <Input value={dualMeetName} onChange=...>
SetDualMeetName(value) ==
    /\ currentStep = 1
    /\ dualMeetName' = value
    /\ UNCHANGED <<homeTeamId, awayTeamId, homeTeamName, awayTeamName, isHomeTeamCustom,
                   isAwayTeamCustom, gradeLevel, selectedWeightClasses,
                   startingWeightClass, customWeightClasses, useCustomWeights,
                   homeTeamOddsOrEvens, currentStep, teams, dualMeets>>
    /\ UNCHANGED besideWizard

\* the items of the home team select
HomeTeamItems == {"custom"} \cup {teams[i].id : i \in DOMAIN teams}

\* step 1: home team select, onValueChange
SelectHomeTeam(value) ==
    /\ currentStep = 1
    /\ value \in HomeTeamItems
    /\ IF value = "custom"
       THEN /\ isHomeTeamCustom' = TRUE
            /\ homeTeamId' = ""
            /\ homeTeamName' = homeTeamName
       ELSE /\ isHomeTeamCustom' = FALSE
            /\ homeTeamId' = value
            /\ homeTeamName' = ""
    /\ dualMeetName' = AutoName(homeTeamId', awayTeamId, homeTeamName', awayTeamName,
                                isHomeTeamCustom', isAwayTeamCustom)
    /\ UNCHANGED <<awayTeamId, awayTeamName, isAwayTeamCustom, gradeLevel,
                   selectedWeightClasses, startingWeightClass, customWeightClasses,
                   useCustomWeights, homeTeamOddsOrEvens, currentStep, teams, dualMeets>>
    /\ UNCHANGED besideWizard

\* the items of the away team select: teams.filter(t => t.id !== homeTeamId)
AwayTeamItems == {"custom"} \cup {teams[i].id : i \in {j \in DOMAIN teams : teams[j].id # homeTeamId}}

\* step 1: away team select, onValueChange
SelectAwayTeam(value) ==
    /\ currentStep = 1
    /\ value \in AwayTeamItems
    /\ IF value = "custom"
       THEN /\ isAwayTeamCustom' = TRUE
            /\ awayTeamId' = ""
            /\ awayTeamName' = awayTeamName
       ELSE /\ isAwayTeamCustom' = FALSE
            /\ awayTeamId' = value
            /\ awayTeamName' = ""
    /\ dualMeetName' = AutoName(homeTeamId, awayTeamId', homeTeamName, awayTeamName',
                                isHomeTeamCustom, isAwayTeamCustom')
    /\ UNCHANGED <<homeTeamId, homeTeamName, isHomeTeamCustom, gradeLevel,
                   selectedWeightClasses, startingWeightClass, customWeightClasses,
                   useCustomWeights, homeTeamOddsOrEvens, currentStep, teams, dualMeets>>
    /\ UNCHANGED besideWizard

\* step 1: <Input value={homeTeamName} onChange=...>, shown for a custom home team
SetHomeTeamName(value) ==
    /\ currentStep = 1
    /\ isHomeTeamCustom
    /\ homeTeamName' = value
    /\ dualMeetName' = AutoName(homeTeamId, awayTeamId, value, awayTeamName,
                                isHomeTeamCustom, isAwayTeamCustom)
    /\ UNCHANGED <<homeTeamId, awayTeamId, awayTeamName, isHomeTeamCustom,
                   isAwayTeamCustom, gradeLevel, selectedWeightClasses,
                   startingWeightClass, customWeightClasses, useCustomWeights,
                   homeTeamOddsOrEvens, currentStep, teams, dualMeets>>
    /\ UNCHANGED besideWizard

\* step 1: <Input value={awayTeamName} onChange=...>, shown for a custom away team
SetAwayTeamName(value) ==
    /\ currentStep = 1
    /\ isAwayTeamCustom
    /\ awayTeamName' = value
    /\ dualMeetName' = AutoName(homeTeamId, awayTeamId, homeTeamName, value,
                                isHomeTeamCustom, isAwayTeamCustom)
    /\ UNCHANGED <<homeTeamId, awayTeamId, homeTeamName, isHomeTeamCustom,
                   isAwayTeamCustom, gradeLevel, selectedWeightClasses,
                   startingWeightClass, customWeightClasses, useCustomWeights,
                   homeTeamOddsOrEvens, currentStep, teams, dualMeets>>
    /\ UNCHANGED besideWizard

\* the weight-class buttons on screen in step 2
ToggleButtons == Range(availableWeightClasses)

\* prev => prev.includes(w) ? prev.filter(x => x !== w) : [...prev, w].sort((a, b) => a - b)
Toggled(prev, weightClass) ==
    IF Includes(prev, weightClass)
    THEN LET Other(w) == w # weightClass IN SelectSeq(prev, Other)
    ELSE SortAsc(Append(prev, weightClass))

\* step 2: a weight-class button, onClick
ToggleWeightClass(weightClass) ==
    /\ currentStep = 2
    /\ weightClass \in ToggleButtons
    /\ LET auto == AutoSelect(gradeLevel, useCustomWeights, customWeightClasses,
                              Toggled(selectedWeightClasses, weightClass),
                              startingWeightClass)
       IN  /\ selectedWeightClasses' = auto[1]
           /\ startingWeightClass' = auto[2]
    /\ UNCHANGED <<dualMeetName, homeTeamId, awayTeamId, homeTeamName, awayTeamName,
                   isHomeTeamCustom, isAwayTeamCustom, gradeLevel, customWeightClasses,
                   useCustomWeights, homeTeamOddsOrEvens, currentStep, teams, dualMeets>>
    /\ UNCHANGED besideWizard

\* step 2: the "Use custom weight classes" checkbox, onChange
SetUseCustomWeights(checked) ==
    /\ currentStep = 2
    /\ useCustomWeights' = checked
    /\ LET auto == AutoSelect(gradeLevel, checked, customWeightClasses,
                              selectedWeightClasses, startingWeightClass)
       IN  /\ selectedWeightClasses' = auto[1]
           /\ startingWeightClass' = auto[2]
    /\ UNCHANGED <<dualMeetName, homeTeamId, awayTeamId, homeTeamName, awayTeamName,
                   isHomeTeamCustom, isAwayTeamCustom, gradeLevel, customWeightClasses,
                   homeTeamOddsOrEvens, currentStep, teams, dualMeets>>
    /\ UNCHANGED besideWizard

\* step 2: the custom entry, onChange; on screen in custom mode
SetCustomWeightClasses(value) ==
    /\ currentStep = 2
    /\ useCustomWeights
    /\ customWeightClasses' = value
    /\ LET auto == AutoSelect(gradeLevel, useCustomWeights, value,
                              selectedWeightClasses, startingWeightClass)
       IN  /\ selectedWeightClasses' = auto[1]
           /\ startingWeightClass' = auto[2]
    /\ UNCHANGED <<dualMeetName, homeTeamId, awayTeamId, homeTeamName, awayTeamName,
                   isHomeTeamCustom, isAwayTeamCustom, gradeLevel, useCustomWeights,
                   homeTeamOddsOrEvens, currentStep, teams, dualMeets>>
    /\ UNCHANGED besideWizard

\* step 2: starting weight select, onValueChange; its items are the selected classes
\* (an item's value is weightClass.toString(), read back with parseInt: the same
\* integer)
SetStartingWeightClass(value) ==
    /\ currentStep = 2
    /\ Includes(selectedWeightClasses, value)
    /\ LET auto == AutoSelect(gradeLevel, useCustomWeights, customWeightClasses,
                              selectedWeightClasses, value)
       IN  /\ selectedWeightClasses' = auto[1]
           /\ startingWeightClass' = auto[2]
    /\ UNCHANGED <<dualMeetName, homeTeamId, awayTeamId, homeTeamName, awayTeamName,
                   isHomeTeamCustom, isAwayTeamCustom, gradeLevel, customWeightClasses,
                   useCustomWeights, homeTeamOddsOrEvens, currentStep, teams, dualMeets>>
    /\ UNCHANGED besideWizard

\* step 2: "Home Team Gets Choice On" select, onValueChange
SetHomeTeamOddsOrEvens(value) ==
    /\ currentStep = 2
    /\ homeTeamOddsOrEvens' = value
    /\ UNCHANGED <<dualMeetName, homeTeamId, awayTeamId, homeTeamName, awayTeamName,
                   isHomeTeamCustom, isAwayTeamCustom, gradeLevel, selectedWeightClasses,
                   startingWeightClass, customWeightClasses, useCustomWeights,
                   currentStep, teams, dualMeets>>
    /\ UNCHANGED besideWizard

\* setCurrentStep(step) from the step shown: leaves all else alone
SetCurrentStep(from, step) ==
    /\ currentStep = from
    /\ currentStep' = step
    /\ UNCHANGED <<dualMeetName, homeTeamId, awayTeamId, homeTeamName, awayTeamName,
                   isHomeTeamCustom, isAwayTeamCustom, gradeLevel, selectedWeightClasses,
                   startingWeightClass, customWeightClasses, useCustomWeights,
                   homeTeamOddsOrEvens, teams, dualMeets>>
    /\ UNCHANGED besideWizard

\* disabled= of button-next-step1
NextStep1Disabled ==
    \/ Trim(dualMeetName) = ""
    \/ (homeTeamId = "" /\ Trim(homeTeamName) = "")
    \/ (awayTeamId = "" /\ Trim(awayTeamName) = "")

\* faulty variant: the button forgets the empty selection
NextStep2DisabledIgnoresEmpty ==
    \/ Falsy(startingWeightClass)
    \/ (useCustomWeights /\ CustomEntryBlank(customWeightClasses))

\* disabled= of button-next-step2
NextStep2Disabled ==
    \/ Len(selectedWeightClasses) = 0
    \/ Falsy(startingWeightClass)
    \/ (useCustomWeights /\ CustomEntryBlank(customWeightClasses))

\* step 1: "Next: Weight Classes"
NextStep1 == ~NextStep1Disabled /\ SetCurrentStep(1, 2)

\* step 2: "Back" and "Next: Home Roster"
BackStep2 == SetCurrentStep(2, 1)

NextStep2 == ~NextStep2Disabled /\ SetCurrentStep(2, 3)

\* step 3: "Back" and "Next: Away Roster"
BackStep3 == SetCurrentStep(3, 2)

NextStep3 == SetCurrentStep(3, 4)

\* step 4: "Back"
BackStep4 == SetCurrentStep(4, 3)

\* the check at the head of createDualMeet
\* faulty variant: only the name is required
RequiredFieldsMissingNameOnly == Trim(dualMeetName) = ""

RequiredFieldsMissing ==
    LET hasHomeTeam == homeTeamId # "" \/ Trim(homeTeamName) # ""
        hasAwayTeam == awayTeamId # "" \/ Trim(awayTeamName) # ""
    IN  \/ Trim(dualMeetName) = ""
        \/ ~hasHomeTeam
        \/ ~hasAwayTeam
        \/ Len(selectedWeightClasses) = 0
        \/ Falsy(startingWeightClass)

\* the DualMeet that createDualMeet builds (id and createdAt, both read off the
\* clock, and the rosters are left out)
NewDualMeet ==
    [name |-> Trim(dualMeetName),
     homeTeamId |-> IF homeTeamId # "" THEN homeTeamId ELSE "custom-home",
     awayTeamId |-> IF awayTeamId # "" THEN awayTeamId ELSE "custom-away",
     gradeLevel |-> gradeLevel,
     weightClasses |-> selectedWeightClasses,
     startingWeightClass |-> startingWeightClass,
     homeTeamOddsOrEvens |-> homeTeamOddsOrEvens,
     homeTeamChoiceMatches |->
         GenerateHomeTeamChoiceMatches(selectedWeightClasses, startingWeightClass,
                                       homeTeamOddsOrEvens),
     status |-> "setup",
     matchIds |-> <<>>]

\* step 4: "Create Dual Meet"
CreateDualMeet ==
    /\ currentStep = 4
    /\ dualMeets' = IF RequiredFieldsMissing THEN dualMeets
                    ELSE Append(dualMeets, NewDualMeet)
    /\ dualMeetCreatedCalls' = IF RequiredFieldsMissing THEN dualMeetCreatedCalls
                               ELSE dualMeetCreatedCalls + 1
    /\ UNCHANGED <<dualMeetName, homeTeamId, awayTeamId, homeTeamName, awayTeamName,
                   isHomeTeamCustom, isAwayTeamCustom, gradeLevel, selectedWeightClasses,
                   startingWeightClass, customWeightClasses, useCustomWeights,
                   homeTeamOddsOrEvens, currentStep, teams>>
    /\ UNCHANGED <<orderVars, pairingVars, matchVars, storageVars, competitionVars,
                   recorderVars, routeResponse>>

-----------------------------------------------------------------------------
(* CompetitionSetup: the pairings rendered for a competition (generateMatches). *)
(* A wrestler is [id, teamId, weighIn]; weighIn.recorded is FALSE when the       *)
(* wrestler has no weighIn object, and weighIn.weightClass is "" when the        *)
(* weigh-in carries no weight class (absent or empty: both are falsy).           *)

NoWeighIn == [recorded |-> FALSE, weightClass |-> ""]

\* the idle competition card: nothing to pair
NoCompetition == [format |-> "individual", teamIds |-> <<>>]

\* the weight classes of the inputs that are array-index keys of a JavaScript
\* object ("106", "113"), in ascending numeric order
ArrayIndexKeys == <<"106", "113">>

GetWrestlersByTeam(ws, teamId) ==
    LET OfTeam(w) == w.teamId = teamId
    IN  SelectSeq(ws, OfTeam)

\* competition.teamIds.flatMap(teamId => getWrestlersByTeam(teamId).filter(w => w.weighIn))
RECURSIVE ParticipatingWrestlers(_, _)
ParticipatingWrestlers(ws, teamIds) ==
    IF teamIds = <<>> THEN <<>>
    ELSE LET WeighedIn(w) == w.weighIn.recorded
         IN  SelectSeq(GetWrestlersByTeam(ws, Head(teamIds)), WeighedIn)
                 \o ParticipatingWrestlers(ws, Tail(teamIds))

\* wrestler.weighIn?.weightClass || 'No Weight Class'
WeightClassKey(w) ==
    IF w.weighIn.weightClass = "" THEN "No Weight Class" ELSE w.weighIn.weightClass

\* the keys of the accumulator of the reduce, in the order they were created
RECURSIVE KeysInserted(_, _)
KeysInserted(participants, acc) ==
    IF participants = <<>> THEN acc
    ELSE LET key == WeightClassKey(Head(participants))
         IN  KeysInserted(Tail(participants),
                          IF Includes(acc, key) THEN acc ELSE Append(acc, key))

\* the order of Object.entries: array-index keys ascending, then the other keys
\* in insertion order
ObjectKeys(inserted) ==
    LET Present(key) == Includes(inserted, key)
        Other(key) == ~Includes(ArrayIndexKeys, key)
    IN  SelectSeq(ArrayIndexKeys, Present) \o SelectSeq(inserted, Other)

\* acc[weightClass]: the participants pushed under one key, in order
WrestlersByWeight(participants, key) ==
    LET InClass(w) == WeightClassKey(w) = key
    IN  SelectSeq(participants, InClass)

\* faulty variant: the team filter keeps every wrestler of the weight class
TeamWrestlersUnfiltered(group, teamId) == group

\* wrestlers.filter(w => w.teamId === competition.teamIds[k])
TeamWrestlers(group, teamId) ==
    LET OfTeam(w) == w.teamId = teamId
    IN  SelectSeq(group, OfTeam)

\* faulty variant: the k-th wrestler of one team meets only the k-th of the other
CrossPairsZipped(key, team1Wrestlers, team2Wrestlers) ==
    [k \in 1..Min(Len(team1Wrestlers), Len(team2Wrestlers)) |->
        [weightClass |-> key, wrestlerA |-> team1Wrestlers[k],
         wrestlerB |-> team2Wrestlers[k], status |-> "pending"]]

\* team1Wrestlers.forEach(w1 => team2Wrestlers.forEach(w2 => push(...)))
CrossPairs(key, team1Wrestlers, team2Wrestlers) ==
    [k \in 1..(Len(team1Wrestlers) * Len(team2Wrestlers)) |->
        [weightClass |-> key,
         wrestlerA |-> team1Wrestlers[((k - 1) \div Len(team2Wrestlers)) + 1],
         wrestlerB |-> team2Wrestlers[((k - 1) % Len(team2Wrestlers)) + 1],
         status |-> "pending"]]

\* the body of the forEach over Object.entries(wrestlersByWeight)
MatchesOfWeightClass(comp, key, group) ==
    IF Len(group) >= 2 /\ comp.format = "dual" /\ Len(comp.teamIds) = 2
    THEN CrossPairs(key, TeamWrestlers(group, comp.teamIds[1]),
                         TeamWrestlers(group, comp.teamIds[2]))
    ELSE <<>>

RECURSIVE MatchesOfEntries(_, _, _)
MatchesOfEntries(comp, participants, keys) ==
    IF keys = <<>> THEN <<>>
    ELSE MatchesOfWeightClass(comp, Head(keys), WrestlersByWeight(participants, Head(keys)))
             \o MatchesOfEntries(comp, participants, Tail(keys))

GenerateMatches(ws, comp) ==
    LET participatingWrestlers == ParticipatingWrestlers(ws, comp.teamIds)
    IN  MatchesOfEntries(comp, participatingWrestlers,
                         ObjectKeys(KeysInserted(participatingWrestlers, <<>>)))

\* the render of one competition card: generateMatches(competition)
ShowPotentialMatches ==
    /\ ~generated
    /\ potentialMatches' = GenerateMatches(wrestlers, competition)
    /\ generated' = TRUE
    /\ UNCHANGED <<wrestlers, competition>>
    /\ UNCHANGED <<wizardVars, orderVars, matchVars, storageVars, competitionVars,
                   recorderVars, routeResponse, dualMeetCreatedCalls>>

PairingIdle ==
    /\ wrestlers = <<>>
    /\ competition = NoCompetition
    /\ potentialMatches = <<>>
    /\ generated = FALSE

-----------------------------------------------------------------------------
(* MatchControl: one bout under control, the PATCH /api/matches/:id requests   *)
(* of updateMatch and the match kept by MemStorage.                             *)
(*                                                                              *)
(* A match is [id, status, currentTime, isRunning, myScore, opponentScore,      *)
(* finalResult]; the fields no handler of MatchControl writes are left out.     *)
(* An absent finalResult is NoResult: JSON.stringify drops the key, so the      *)
(* server's merge keeps the result it has.  A handler runs up to its first      *)
(* await in one action; what follows the await runs with the values of the      *)
(* render the handler was created in (its closure), in the action that          *)
(* receives the response.  Identical requests in flight count once.             *)

\* selectedMatchId when WrestlingApp passes none
undefined == "undefined"

\* length of a period in seconds, the initial currentTime
PeriodSeconds == 180

NoResult ==
    [winner |-> "", winType |-> "", finalScore |-> [myWrestler |-> 0, opponent |-> 0],
     duration |-> <<0, 0>>]

\* selectedMatch === null
NoMatch ==
    [id |-> "", status |-> "pending", currentTime |-> PeriodSeconds, isRunning |-> FALSE,
     myScore |-> 0, opponentScore |-> 0, finalResult |-> NoResult]

\* the match MatchCreation stores: matchForm with status 'pending'
CreatedMatch == [NoMatch EXCEPT !.id = "m1"]

\* no object was handed to createEventLog yet
NoEventLog ==
    [action |-> "", wrestler |-> undefined, points |-> 0, timeRemaining |-> 0,
     scoreAfter |-> [myWrestler |-> 0, opponent |-> 0]]

\* the values a handler reads from its render after an await
NoClosure ==
    [wrestler |-> undefined, points |-> 0, action |-> "",
     currentTime |-> 0, myScore |-> 0, opponentScore |-> 0]

\* formatTime(seconds): "m:ss", kept as <<m, ss>>
FormatTime(seconds) == <<seconds \div 60, seconds % 60>>

\* MemStorage.updateMatch: { ...existing, ...updates, id }
MergeMatch(existing, updates) ==
    [updates EXCEPT !.id = existing.id,
                    !.finalResult = IF updates.finalResult = NoResult
                                    THEN existing.finalResult
                                    ELSE updates.finalResult]

\* the effect on [selectedMatch]: the component's timer and scores follow the match
AdoptSelectedMatch(match) ==
    /\ currentTime' = match.currentTime
    /\ myScore' = match.myScore
    /\ opponentScore' = match.opponentScore
    /\ isRunning' = match.isRunning

\* the state of a MatchControl that is not mounted: its useState initial values
Unmounted ==
    /\ mounted' = FALSE
    /\ selectedMatch' = NoMatch
    /\ currentTime' = PeriodSeconds
    /\ isRunning' = FALSE
    /\ myScore' = 0
    /\ opponentScore' = 0

\* the component shows the controls of a selected match
Controlling == mounted /\ selectedMatch # NoMatch

\* the object logEvent builds from the values of its render
EventLogOf(action, wrestler, points, time, my, opponent) ==
    [action |-> action, wrestler |-> wrestler, points |-> points, timeRemaining |-> time,
     scoreAfter |-> [myWrestler |-> my, opponent |-> opponent]]

\* updateMatch(selectedMatch.id, updates) up to its await: the request leaves
SendPatch(handler, updates, closure) ==
    /\ updatesSent < MaxUpdates
    /\ inflight' = inflight \cup {[phase |-> "request", handler |-> handler,
                                   body |-> updates, closure |-> closure]}
    /\ updatesSent' = updatesSent + 1

\* the effect on [selectedMatchId, matches] or the pick in "Select a Match",
\* followed by the effect on [selectedMatch]
SelectMatch ==
    /\ mounted
    /\ selectedMatch = NoMatch
    /\ selectedMatchId = undefined => matches.status \in {"pending", "active"}
    /\ selectedMatch' = matches
    /\ AdoptSelectedMatch(matches)
    /\ UNCHANGED <<storedMatch, matches, selectedMatchId, mounted, inflight, updatesSent,
                   lastEventLog>>
    /\ UNCHANGED besideMatch

StartTimer ==
    /\ Controlling
    /\ ~isRunning
    /\ isRunning' = TRUE
    /\ lastEventLog' = EventLogOf("period_start", undefined, 0, currentTime, myScore,
                                  opponentScore)
    /\ UNCHANGED <<storedMatch, matches, selectedMatchId, selectedMatch, currentTime, myScore,
                   opponentScore, mounted, inflight, updatesSent>>
    /\ UNCHANGED besideMatch

PauseTimer ==
    /\ Controlling
    /\ isRunning
    /\ isRunning' = FALSE
    /\ SendPatch("pauseTimer", [selectedMatch EXCEPT !.isRunning = FALSE], NoClosure)
    /\ UNCHANGED <<storedMatch, matches, selectedMatchId, selectedMatch, currentTime, myScore,
                   opponentScore, mounted, lastEventLog>>
    /\ UNCHANGED besideMatch

ResetTimer ==
    /\ Controlling
    /\ isRunning' = FALSE
    /\ currentTime' = PeriodSeconds
    /\ SendPatch("resetTimer",
                 [selectedMatch EXCEPT !.currentTime = PeriodSeconds, !.isRunning = FALSE],
                 NoClosure)
    /\ UNCHANGED <<storedMatch, matches, selectedMatchId, selectedMatch, myScore,
                   opponentScore, mounted, lastEventLog>>
    /\ UNCHANGED besideMatch

\* faulty variant: the tick decrements whatever the time is
UpdateTimerBelowZero ==
    /\ Controlling
    /\ isRunning
    /\ currentTime' = currentTime - 1
    /\ SendPatch("updateTimer",
                 [selectedMatch EXCEPT !.currentTime = currentTime - 1, !.isRunning = TRUE],
                 NoClosure)
    /\ UNCHANGED <<storedMatch, matches, selectedMatchId, selectedMatch, myScore,
                   opponentScore, mounted, lastEventLog, isRunning>>
    /\ UNCHANGED besideMatch

\* updateTimer, called by the interval the effect on [isRunning, updateTimer] keeps
\* while isRunning
UpdateTimer ==
    /\ Controlling
    /\ isRunning
    /\ IF currentTime > 0
       THEN /\ currentTime' = currentTime - 1
            /\ SendPatch("updateTimer",
                         [selectedMatch EXCEPT !.currentTime = currentTime - 1,
                                               !.isRunning = TRUE],
                         NoClosure)
            /\ UNCHANGED isRunning
       ELSE /\ currentTime = 0
            /\ isRunning' = FALSE
            /\ UNCHANGED <<currentTime, inflight, updatesSent>>
    /\ UNCHANGED <<storedMatch, matches, selectedMatchId, selectedMatch, myScore,
                   opponentScore, mounted, lastEventLog>>
    /\ UNCHANGED besideMatch

AddPoints(wrestler, points, action) ==
    LET newMyScore == IF wrestler = "my_wrestler" THEN myScore + points ELSE myScore
        newOpponentScore == IF wrestler = "opponent" THEN opponentScore + points
                            ELSE opponentScore
    IN  /\ Controlling
        /\ myScore' = newMyScore
        /\ opponentScore' = newOpponentScore
        /\ SendPatch("addPoints",
                     [selectedMatch EXCEPT !.myScore = newMyScore,
                                           !.opponentScore = newOpponentScore],
                     [wrestler |-> wrestler, points |-> points, action |-> action,
                      currentTime |-> currentTime, myScore |-> myScore,
                      opponentScore |-> opponentScore])
        /\ awardedScore' =
              IF wrestler = "my_wrestler"
              THEN [awardedScore EXCEPT !.myWrestler = awardedScore.myWrestler + points]
              ELSE [awardedScore EXCEPT !.opponent = awardedScore.opponent + points]
        /\ UNCHANGED <<storedMatch, matches, selectedMatchId, selectedMatch, currentTime,
                       isRunning, mounted, lastEventLog>>
        /\ UNCHANGED <<wizardVars, orderVars, pairingVars, storageVars, competitionVars,
                       recorderVars, routeResponse, dualMeetCreatedCalls>>

\* faulty variant: the duration is the time left, not the time wrestled
FinalResultOfTimeLeft(my, opponent, time) ==
    [winner |-> IF my > opponent THEN "my_wrestler" ELSE "opponent",
     winType |-> "decision",
     finalScore |-> [myWrestler |-> my, opponent |-> opponent],
     duration |-> FormatTime(time)]

\* the finalResult endMatch builds from myScore, opponentScore and currentTime
FinalResultOf(my, opponent, time) ==
    [winner |-> IF my > opponent THEN "my_wrestler" ELSE "opponent",
     winType |-> "decision",
     finalScore |-> [myWrestler |-> my, opponent |-> opponent],
     duration |-> FormatTime(PeriodSeconds - time)]

EndMatch ==
    LET result == FinalResultOf(myScore, opponentScore, currentTime)
    IN  /\ Controlling
        /\ isRunning' = FALSE
        /\ SendPatch("endMatch",
                     [selectedMatch EXCEPT !.status = "completed", !.isRunning = FALSE,
                                           !.finalResult = result],
                     [wrestler |-> result.winner, points |-> 0, action |-> "match_end",
                      currentTime |-> currentTime, myScore |-> myScore,
                      opponentScore |-> opponentScore])
        /\ UNCHANGED <<storedMatch, matches, selectedMatchId, selectedMatch, currentTime,
                       myScore, opponentScore, mounted, lastEventLog>>
        /\ UNCHANGED besideMatch

\* the Back button: onBack() unmounts the component
Back ==
    /\ mounted
    /\ Unmounted
    /\ UNCHANGED <<storedMatch, matches, selectedMatchId, inflight, updatesSent, lastEventLog>>
    /\ UNCHANGED besideMatch

\* app.patch("/api/matches/:id"): storage.updateMatch, then res.json(match)
PatchMatch(request) ==
    /\ request \in inflight
    /\ request.phase = "request"
    /\ storedMatch' = MergeMatch(storedMatch, request.body)
    /\ inflight' = (inflight \ {request})
                      \cup {[request EXCEPT !.phase = "response",
                                            !.body = MergeMatch(storedMatch, request.body)]}
    /\ UNCHANGED <<matches, selectedMatchId, selectedMatch, currentTime, isRunning, myScore,
                   opponentScore, mounted, updatesSent, lastEventLog>>
    /\ UNCHANGED besideMatch

\* the rest of updateMatch (setMatches, with the effects of the re-render) and the
\* rest of the handler that awaited it
ReceiveResponse(response) ==
    LET closure == response.closure
        logs == response.handler \in {"addPoints", "endMatch"}
        leaves == response.handler = "endMatch"
    IN  /\ response \in inflight
        /\ response.phase = "response"
        /\ inflight' = inflight \ {response}
        /\ matches' = IF mounted THEN response.body ELSE matches
        /\ lastEventLog' =
              IF logs
              THEN EventLogOf(closure.action, closure.wrestler, closure.points,
                              closure.currentTime, closure.myScore, closure.opponentScore)
              ELSE lastEventLog
        /\ IF mounted /\ leaves
           THEN Unmounted
           ELSE IF mounted /\ selectedMatchId # undefined
           THEN /\ selectedMatch' = response.body
                /\ AdoptSelectedMatch(response.body)
                /\ UNCHANGED mounted
           ELSE UNCHANGED <<selectedMatch, currentTime, isRunning, myScore, opponentScore,
                            mounted>>
        /\ UNCHANGED <<storedMatch, selectedMatchId, updatesSent>>
        /\ UNCHANGED besideMatch

MatchIdle ==
    /\ storedMatch = CreatedMatch
    /\ matches = CreatedMatch
    /\ selectedMatchId = undefined
    /\ selectedMatch = NoMatch
    /\ currentTime = PeriodSeconds
    /\ isRunning = FALSE
    /\ myScore = 0
    /\ opponentScore = 0
    /\ mounted = FALSE
    /\ inflight = {}
    /\ updatesSent = 0
    /\ lastEventLog = NoEventLog
    /\ awardedScore = [myWrestler |-> 0, opponent |-> 0]

-----------------------------------------------------------------------------
(* useWrestlingData: deleting a team, and the teams and wrestlers kept by        *)
(* MemStorage behind /api/teams and /api/wrestlers.                              *)

WithoutTeam(ts, id) ==
    LET Other(t) == t.id # id
    IN  SelectSeq(ts, Other)

WithoutWrestlersOf(ws, id) ==
    LET Other(w) == w.teamId # id
    IN  SelectSeq(ws, Other)

\* deleteTeam(id) up to its await: the DELETE request leaves
DeleteTeam(id) ==
    /\ \E i \in DOMAIN teams : teams[i].id = id
    /\ teamDeletes' = teamDeletes \cup {[id |-> id, phase |-> "request"]}
    /\ UNCHANGED <<teams, wrestlers, storageTeams, storageWrestlers>>
    /\ UNCHANGED <<competitions, matches, storageCompetitions, storedMatch, routeResponse>>
    /\ UNCHANGED besideData

\* app.delete("/api/teams/:id"): storage.deleteTeam(id), then res.json
DeleteTeamRoute(request) ==
    /\ request \in teamDeletes
    /\ request.phase = "request"
    /\ storageTeams' = WithoutTeam(storageTeams, request.id)
    /\ teamDeletes' = (teamDeletes \ {request}) \cup {[request EXCEPT !.phase = "response"]}
    /\ UNCHANGED <<teams, wrestlers, storageWrestlers>>
    /\ UNCHANGED <<competitions, matches, storageCompetitions, storedMatch, routeResponse>>
    /\ UNCHANGED besideData

\* the rest of deleteTeam: setTeams and setWrestlers drop the team and its wrestlers
DeleteTeamDone(response) ==
    /\ response \in teamDeletes
    /\ response.phase = "response"
    /\ teams' = WithoutTeam(teams, response.id)
    /\ wrestlers' = WithoutWrestlersOf(wrestlers, response.id)
    /\ teamDeletes' = teamDeletes \ {response}
    /\ UNCHANGED <<storageTeams, storageWrestlers>>
    /\ UNCHANGED <<competitions, matches, storageCompetitions, storedMatch, routeResponse>>
    /\ UNCHANGED besideData

\* loadData: the four GETs replace the client's lists
LoadData ==
    /\ teams' = storageTeams
    /\ wrestlers' = storageWrestlers
    /\ competitions' = storageCompetitions
    /\ matches' = storedMatch
    /\ UNCHANGED <<storageTeams, storageWrestlers, teamDeletes>>
    /\ UNCHANGED <<storageCompetitions, storedMatch, routeResponse>>
    /\ UNCHANGED besideData

StorageIdle ==
    /\ storageTeams = LoadedTeams
    /\ storageWrestlers = <<>>
    /\ teamDeletes = {}

CompetitionIdle ==
    /\ competitions = <<>>
    /\ storageCompetitions = <<>>
    /\ competitionCalls = {}
    /\ toast = ""

\* no answer was sent yet
NoResponse == [status |-> 0, error |-> ""]

RoutesIdle == routeResponse = NoResponse

\* this.stream === null, this.mediaRecorder === null
NoStream == "null"
NoMediaRecorder == "null"

\* no method was called yet
NoCall == [method |-> "", error |-> ""]

RecorderIdle ==
    /\ stream = NoStream
    /\ mediaRecorder = NoMediaRecorder
    /\ recordedChunks = <<>>
    /\ stopping = FALSE
    /\ recorderResult = NoCall

-----------------------------------------------------------------------------
(* CompetitionSetup: creating and starting competitions, the requests of        *)
(* useWrestlingData to /api/competitions and the competitions kept by           *)
(* MemStorage.  A competition is [id, status]; its name, format and teams are   *)
(* left out (the form is submitted filled in).  routes.ts registers GET and     *)
(* POST /api/competitions only: what answers PATCH /api/competitions/:id is     *)
(* decided outside routes.ts, and is either a body that is not JSON (the HTML   *)
(* of a 404 page or of the client's index page) or a JSON object that is not a  *)
(* competition.                                                                 *)

\* the ids randomUUID hands out, in order
Uuids == <<"c1", "c2", "c3", "c4">>

\* a JSON object without id and status, as a competition record
NotACompetition == [id |-> undefined, status |-> undefined]

\* the status of the competition with the given id in a list, undefined if none
StatusOf(list, id) ==
    IF \E i \in DOMAIN list : list[i].id = id
    THEN list[CHOOSE i \in DOMAIN list : list[i].id = id].status
    ELSE undefined

\* prev.map(c => c.id === id ? updated : c)
ReplaceCompetition(list, id, updated) ==
    [i \in DOMAIN list |-> IF list[i].id = id THEN updated ELSE list[i]]

\* handleCreateCompetition and createCompetition up to the await: the POST leaves
HandleCreateCompetition ==
    /\ competitionCalls' = competitionCalls \cup
           {[method |-> "POST", phase |-> "request", id |-> "", json |-> TRUE,
             body |-> [id |-> undefined, status |-> "setup"]]}
    /\ UNCHANGED <<competitions, storageCompetitions, toast>>
    /\ UNCHANGED <<wizardVars, orderVars, pairingVars, matchVars, storageVars, recorderVars,
                   routeResponse, dualMeetCreatedCalls>>

\* app.post("/api/competitions"): storage.insertCompetition, then res.json
PostCompetition(request) ==
    LET inserted == [request.body EXCEPT !.id = Uuids[Len(storageCompetitions) + 1]]
    IN  /\ request \in competitionCalls
        /\ request.method = "POST"
        /\ request.phase = "request"
        /\ storageCompetitions' = Append(storageCompetitions, inserted)
        /\ competitionCalls' = (competitionCalls \ {request}) \cup
               {[request EXCEPT !.phase = "response", !.body = inserted]}
        /\ UNCHANGED <<competitions, toast>>
        /\ UNCHANGED <<wizardVars, orderVars, pairingVars, matchVars, storageVars,
                       recorderVars, routeResponse, dualMeetCreatedCalls>>

\* the rest of createCompetition and of handleCreateCompetition
CreateCompetitionDone(response) ==
    /\ response \in competitionCalls
    /\ response.method = "POST"
    /\ response.phase = "response"
    /\ competitions' = Append(competitions, response.body)
    /\ toast' = "Competition created successfully"
    /\ competitionCalls' = competitionCalls \ {response}
    /\ UNCHANGED storageCompetitions
    /\ UNCHANGED <<wizardVars, orderVars, pairingVars, matchVars, storageVars, recorderVars,
                   routeResponse, dualMeetCreatedCalls>>

\* "Start Matches" on the card of a competition in status setup:
\* handleStartCompetition and updateCompetition up to the await: the PATCH leaves
HandleStartCompetition(competitionId) ==
    /\ StatusOf(competitions, competitionId) = "setup"
    /\ competitionCalls' = competitionCalls \cup
           {[method |-> "PATCH", phase |-> "request", id |-> competitionId, json |-> TRUE,
             body |-> [id |-> undefined, status |-> "active"]]}
    /\ UNCHANGED <<competitions, storageCompetitions, toast>>
    /\ UNCHANGED <<wizardVars, orderVars, pairingVars, matchVars, storageVars, recorderVars,
                   routeResponse, dualMeetCreatedCalls>>

\* PATCH /api/competitions/:id reaches the server: no route of routes.ts matches
\* it and no method of MemStorage updates a competition
PatchCompetition(request, json) ==
    /\ request \in competitionCalls
    /\ request.method = "PATCH"
    /\ request.phase = "request"
    /\ competitionCalls' = (competitionCalls \ {request}) \cup
           {[request EXCEPT !.phase = "response", !.json = json, !.body = NotACompetition]}
    /\ UNCHANGED <<competitions, storageCompetitions, toast>>
    /\ UNCHANGED <<wizardVars, orderVars, pairingVars, matchVars, storageVars, recorderVars,
                   routeResponse, dualMeetCreatedCalls>>

\* the rest of updateCompetition (response.json(), setCompetitions) and of
\* handleStartCompetition (the toast; the catch when response.json() rejects)
StartCompetitionDone(response) ==
    /\ response \in competitionCalls
    /\ response.method = "PATCH"
    /\ response.phase = "response"
    /\ competitionCalls' = competitionCalls \ {response}
    /\ IF response.json
       THEN /\ competitions' = ReplaceCompetition(competitions, response.id, response.body)
            /\ toast' = "Competition started successfully"
       ELSE /\ toast' = "Error starting competition"
            /\ UNCHANGED competitions
    /\ UNCHANGED storageCompetitions
    /\ UNCHANGED <<wizardVars, orderVars, pairingVars, matchVars, storageVars, recorderVars,
                   routeResponse, dualMeetCreatedCalls>>

-----------------------------------------------------------------------------
(* The PATCH routes of the server on MemStorage.  An update of MemStorage     *)
(* either throws or returns; both are [threw, map], map being the store after  *)
(* the call.  A route answers 200 with the record, or 500 with its error when  *)
(* the storage threw.                                                           *)

\* everything the PATCH routes never touch
besideRoutes == <<besideData, teams, wrestlers, competitions, matches, storageCompetitions,
                  teamDeletes>>

\* this.teams.get(id) / this.wrestlers.get(id) finds a record
Stored(map, id) == \E i \in DOMAIN map : map[i].id = id

\* faulty variant: an id that is not stored gets a new team
UpdateTeamUpsert(map, id, updates) ==
    IF ~Stored(map, id)
    THEN [threw |-> FALSE, map |-> Append(map, [id |-> id, name |-> updates.name])]
    ELSE [threw |-> FALSE,
          map |-> [i \in DOMAIN map |->
                      IF map[i].id = id THEN [map[i] EXCEPT !.name = updates.name]
                      ELSE map[i]]]

\* MemStorage.updateTeam with updates { name }
UpdateTeam(map, id, updates) ==
    IF ~Stored(map, id)
    THEN [threw |-> TRUE, map |-> map]
    ELSE [threw |-> FALSE,
          map |-> [i \in DOMAIN map |->
                      IF map[i].id = id THEN [map[i] EXCEPT !.name = updates.name]
                      ELSE map[i]]]

\* MemStorage.updateWrestler with updates { weighIn }
UpdateWrestler(map, id, updates) ==
    IF ~Stored(map, id)
    THEN [threw |-> TRUE, map |-> map]
    ELSE [threw |-> FALSE,
          map |-> [i \in DOMAIN map |->
                      IF map[i].id = id THEN [map[i] EXCEPT !.weighIn = updates.weighIn]
                      ELSE map[i]]]

\* MemStorage.updateMatch on the one stored match
UpdateMatch(stored, id, updates) ==
    IF stored.id # id
    THEN [threw |-> TRUE, map |-> stored]
    ELSE [threw |-> FALSE, map |-> MergeMatch(stored, updates)]

\* res.json(record), or the catch: res.status(500).json({ error })
Answer(result, error) ==
    IF result.threw THEN [status |-> 500, error |-> error]
    ELSE [status |-> 200, error |-> ""]

\* app.patch("/api/teams/:id")
PatchTeamRoute(id, updates) ==
    LET result == UpdateTeam(storageTeams, id, updates)
    IN  /\ storageTeams' = result.map
        /\ routeResponse' = Answer(result, "Failed to update team")
        /\ UNCHANGED <<storageWrestlers, storedMatch>>
        /\ UNCHANGED besideRoutes

\* app.patch("/api/wrestlers/:id")
PatchWrestlerRoute(id, updates) ==
    LET result == UpdateWrestler(storageWrestlers, id, updates)
    IN  /\ storageWrestlers' = result.map
        /\ routeResponse' = Answer(result, "Failed to update wrestler")
        /\ UNCHANGED <<storageTeams, storedMatch>>
        /\ UNCHANGED besideRoutes

\* app.patch("/api/matches/:id"), for any id
PatchMatchRoute(id, updates) ==
    LET result == UpdateMatch(storedMatch, id, updates)
    IN  /\ storedMatch' = result.map
        /\ routeResponse' = Answer(result, "Failed to update match")
        /\ UNCHANGED <<storageTeams, storageWrestlers>>
        /\ UNCHANGED besideRoutes

-----------------------------------------------------------------------------
(* VideoRecorder: the camera stream, the MediaRecorder and the chunks it has    *)
(* delivered.  stream is NoStream or "live"; mediaRecorder is NoMediaRecorder   *)
(* or the state of the MediaRecorder ("inactive", "recording", "paused");       *)
(* recordedChunks is the array of blobs.  MediaRecorder.stop() makes the state  *)
(* inactive at once and queues a last dataavailable and the stop event.  What   *)
(* the browser does (getUserMedia, new MediaRecorder, start, the size of a      *)
(* chunk) is an input of the action.                                            *)

\* everything VideoRecorder never touches
besideRecorder == <<wizardVars, orderVars, pairingVars, matchVars, storageVars,
                   competitionVars, routeResponse, dualMeetCreatedCalls>>

Returned(method) == [method |-> method, error |-> ""]

Threw(method, error) == [method |-> method, error |-> error]

\* initializeCamera: getUserMedia resolves with a stream or rejects
InitializeCamera(granted) ==
    /\ IF granted
       THEN /\ stream' = "live"
            /\ recorderResult' = Returned("initializeCamera")
       ELSE /\ recorderResult' = Threw("initializeCamera", "Failed to access camera")
            /\ UNCHANGED stream
    /\ UNCHANGED <<mediaRecorder, recordedChunks, stopping>>
    /\ UNCHANGED besideRecorder

\* faulty variant: a recording in progress does not turn startRecording down
StartRefusedStreamOnly ==
    IF stream = NoStream
    THEN "Camera not initialized - no media stream available"
    ELSE ""

\* the two checks at the head of startRecording: the error thrown, "" if none
StartRefused ==
    IF stream = NoStream
    THEN "Camera not initialized - no media stream available"
    ELSE IF mediaRecorder # NoMediaRecorder /\ mediaRecorder # "inactive"
    THEN "Recording already in progress"
    ELSE ""

\* startRecording; browser is how far the browser lets the try block get:
\* "constructor" (new MediaRecorder throws), "start" (start(1000) throws) or
\* "recording"
StartRecording(browser) ==
    /\ IF StartRefused # ""
       THEN /\ recorderResult' = Threw("startRecording", StartRefused)
            /\ UNCHANGED <<mediaRecorder, recordedChunks>>
       ELSE /\ recordedChunks' = <<>>
            /\ mediaRecorder' = CASE browser = "constructor" -> mediaRecorder
                                   [] browser = "start" -> "inactive"
                                   [] OTHER -> "recording"
            /\ recorderResult' = IF browser = "recording"
                                 THEN Returned("startRecording")
                                 ELSE Threw("startRecording", "Failed to start recording")
    /\ UNCHANGED <<stream, stopping>>
    /\ UNCHANGED besideRecorder

\* mediaRecorder.ondataavailable while recording: a chunk of the given size
DataAvailable(size) ==
    /\ mediaRecorder = "recording"
    /\ Len(recordedChunks) < MaxChunks
    /\ size > 0
    /\ recordedChunks' = Append(recordedChunks, size)
    /\ UNCHANGED <<stream, mediaRecorder, stopping, recorderResult>>
    /\ UNCHANGED besideRecorder

\* the events a stop() has queued: the last dataavailable, then onstop
StopEvents(size) ==
    /\ stopping
    /\ stopping' = FALSE
    /\ recordedChunks' = IF size > 0 /\ Len(recordedChunks) < MaxChunks
                         THEN Append(recordedChunks, size)
                         ELSE recordedChunks
    /\ UNCHANGED <<stream, mediaRecorder, recorderResult>>
    /\ UNCHANGED besideRecorder

\* the body of stopRecording, shared with cleanup
StopIfActive ==
    IF mediaRecorder # NoMediaRecorder /\ mediaRecorder # "inactive"
    THEN /\ mediaRecorder' = "inactive"
         /\ stopping' = TRUE
    ELSE UNCHANGED <<mediaRecorder, stopping>>

StopRecording ==
    /\ StopIfActive
    /\ recorderResult' = Returned("stopRecording")
    /\ UNCHANGED <<stream, recordedChunks>>
    /\ UNCHANGED besideRecorder

PauseRecording ==
    /\ mediaRecorder' = IF mediaRecorder = "recording" THEN "paused" ELSE mediaRecorder
    /\ recorderResult' = Returned("pauseRecording")
    /\ UNCHANGED <<stream, recordedChunks, stopping>>
    /\ UNCHANGED besideRecorder

ResumeRecording ==
    /\ mediaRecorder' = IF mediaRecorder = "paused" THEN "recording" ELSE mediaRecorder
    /\ recorderResult' = Returned("resumeRecording")
    /\ UNCHANGED <<stream, recordedChunks, stopping>>
    /\ UNCHANGED besideRecorder

\* cleanup: stopRecording, then the stream, the recorder and the chunks are dropped
Cleanup ==
    /\ stopping' = (stopping \/ (mediaRecorder # NoMediaRecorder /\ mediaRecorder # "inactive"))
    /\ stream' = NoStream
    /\ mediaRecorder' = NoMediaRecorder
    /\ recordedChunks' = <<>>
    /\ recorderResult' = Returned("cleanup")
    /\ UNCHANGED besideRecorder

-----------------------------------------------------------------------------
(* The wizard driven by a user: SpecWizard *)

\* grade levels the modelled user picks
GradeLevelInputs == {"high-school", "college", "senior"}

\* custom entries the modelled user types, as their comma-separated pieces
CustomEntryInputs ==
    { <<"">>,
      <<"abc">>,
      <<"106", " 113", " 120", " 126">>,
      <<"113", " 106", " 120">>,
      <<"106", " 106", " 113">>,
      <<"0", " 106">> }

\* available weight classes that are not selected
Deselected == Range(availableWeightClasses) \ Range(selectedWeightClasses)

\* the modelled user edits the form until the first dual meet is created, and
\* from then on only repeats "Create Dual Meet"
Editing == dualMeets = <<>>

Navigate ==
    \/ NextStep1
    \/ BackStep2
    \/ NextStep2
    \/ BackStep3
    \/ NextStep3
    \/ BackStep4

NextWizard ==
    \/ Editing /\ \E g \in GradeLevelInputs : SetGradeLevel(g)
    \/ Editing /\ SelectHomeTeam("t1")
    \/ Editing /\ SelectAwayTeam("t2")
    \/ Editing /\ \E w \in ToggleButtons :
          /\ Includes(selectedWeightClasses, w) => Cardinality(Deselected) < MaxDeselected
          /\ ToggleWeightClass(w)
    \/ Editing /\ \E b \in BOOLEAN : SetUseCustomWeights(b)
    \/ Editing /\ \E t \in CustomEntryInputs : SetCustomWeightClasses(t)
    \/ Editing /\ \E w \in Range(selectedWeightClasses) : SetStartingWeightClass(w)
    \/ Editing /\ \E p \in {"odds", "evens"} : SetHomeTeamOddsOrEvens(p)
    \/ Editing /\ Navigate
    \/ Len(dualMeets) < MaxDualMeets /\ CreateDualMeet

OrderIdle ==
    /\ argWeightClasses = <<>>
    /\ argStartingWeightClass = null
    /\ argChoiceParity = "odds"
    /\ boutOrder = <<>>
    /\ computed = FALSE

InitWizard ==
    /\ WizardMounted
    /\ OrderIdle
    /\ PairingIdle
    /\ MatchIdle
    /\ StorageIdle
    /\ CompetitionIdle
    /\ RecorderIdle
    /\ RoutesIdle
    /\ CompetitionIdle
    /\ RecorderIdle
    /\ RoutesIdle

SpecWizard == InitWizard /\ [][NextWizard]_vars

-----------------------------------------------------------------------------
(* One evaluation of the match-order computation on given inputs: SpecOrder *)

\* weight classes of the lists handed to the computation
WeightInputs == {106, 113, 120, 126}

WeightClassLists == UNION {[1..n -> WeightInputs] : n \in 0..MaxLen}

InitOrder ==
    /\ WizardMounted
    /\ argWeightClasses \in WeightClassLists
    /\ argStartingWeightClass \in WeightInputs
    /\ argChoiceParity \in {"odds", "evens"}
    /\ boutOrder = <<>>
    /\ computed = FALSE
    /\ PairingIdle
    /\ MatchIdle
    /\ StorageIdle
    /\ CompetitionIdle
    /\ RecorderIdle
    /\ RoutesIdle

\* the render of the Match Order Preview, shown when startingWeightClass is truthy
ComputeBoutOrder ==
    /\ ~computed
    /\ ~Falsy(argStartingWeightClass)
    /\ boutOrder' = MatchOrder(argWeightClasses, argStartingWeightClass, argChoiceParity)
    /\ computed' = TRUE
    /\ UNCHANGED <<argWeightClasses, argStartingWeightClass, argChoiceParity>>
    /\ UNCHANGED <<wizardVars, pairingVars, matchVars, storageVars, competitionVars,
                   recorderVars, routeResponse, dualMeetCreatedCalls>>

NextOrder == ComputeBoutOrder

SpecOrder == InitOrder /\ [][NextOrder]_vars

-----------------------------------------------------------------------------
(* The wizard driven by a user who picks the senior level and selects or       *)
(* deselects any of its weight classes, down to none: SpecDeselectAll          *)

NextDeselectAll ==
    \/ Editing /\ SetGradeLevel("senior")
    \/ Editing /\ SelectHomeTeam("t1")
    \/ Editing /\ SelectAwayTeam("t2")
    \/ Editing /\ \E w \in Range(youthWeightClasses["senior"]) : ToggleWeightClass(w)
    \/ Editing /\ Navigate
    \/ Len(dualMeets) < MaxDualMeets /\ CreateDualMeet

SpecDeselectAll == InitWizard /\ [][NextDeselectAll]_vars

-----------------------------------------------------------------------------
(* The wizard driven by a user who picks the two teams in any order and leaves  *)
(* the weight classes as preselected: SpecTeams                                  *)

\* names the modelled user types for a custom team
TeamNameInputs == {"", "Tigers"}

NextTeams ==
    \/ Editing /\ \E name \in {"", "Season opener"} : SetDualMeetName(name)
    \/ Editing /\ \E value \in HomeTeamItems : SelectHomeTeam(value)
    \/ Editing /\ \E value \in AwayTeamItems : SelectAwayTeam(value)
    \/ Editing /\ \E name \in TeamNameInputs : SetHomeTeamName(name)
    \/ Editing /\ \E name \in TeamNameInputs : SetAwayTeamName(name)
    \/ Editing /\ Navigate
    \/ Len(dualMeets) < MaxDualMeets /\ CreateDualMeet

SpecTeams == InitWizard /\ [][NextTeams]_vars

-----------------------------------------------------------------------------
(* One evaluation of generateMatches on a loaded roster: SpecPairing *)

\* most wrestlers in the loaded roster
MaxWrestlers == 4

TeamInputs == {"t1", "t2"}

WeighInInputs ==
    {NoWeighIn} \cup {[recorded |-> TRUE, weightClass |-> c] : c \in {"", "106", "113"}}

\* the rosters of n wrestlers
RosterInputs(n) ==
    { [i \in 1..n |-> [id |-> i, teamId |-> t[i], weighIn |-> w[i]]] :
        t \in [1..n -> TeamInputs], w \in [1..n -> WeighInInputs] }

\* a competition passes handleCreateCompetition with two teams or more
CompetitionInputs ==
    { [format |-> f, teamIds |-> t] :
        f \in {"dual", "individual"},
        t \in {<<"t1", "t2">>, <<"t2", "t1">>, <<"t1", "t2", "t3">>} }

InitPairing ==
    /\ WizardMounted
    /\ OrderIdle
    /\ \E n \in 0..MaxWrestlers : wrestlers \in RosterInputs(n)
    /\ competition \in CompetitionInputs
    /\ potentialMatches = <<>>
    /\ generated = FALSE
    /\ MatchIdle
    /\ StorageIdle
    /\ CompetitionIdle
    /\ RecorderIdle
    /\ RoutesIdle

NextPairing == ShowPotentialMatches

SpecPairing == InitPairing /\ [][NextPairing]_vars

-----------------------------------------------------------------------------
(* One match under control, from the mount of MatchControl on: SpecMatch *)

\* the match as MatchCreation stored it, or as an earlier session left it: paused
\* one second before the end at 2-1
StoredMatchInputs ==
    {CreatedMatch, [CreatedMatch EXCEPT !.currentTime = 1, !.myScore = 2, !.opponentScore = 1]}

\* scoring buttons the modelled user presses
ScoringInputs ==
    {<<"my_wrestler", 2, "takedown">>, <<"my_wrestler", 1, "escape">>,
     <<"opponent", 2, "takedown">>, <<"opponent", 1, "escape">>}

InitMatch ==
    /\ WizardMounted
    /\ OrderIdle
    /\ PairingIdle
    /\ storedMatch \in StoredMatchInputs
    /\ matches = storedMatch
    /\ selectedMatchId \in {"m1", undefined}
    /\ selectedMatch = NoMatch
    /\ currentTime = PeriodSeconds
    /\ isRunning = FALSE
    /\ myScore = 0
    /\ opponentScore = 0
    /\ mounted = TRUE
    /\ inflight = {}
    /\ updatesSent = 0
    /\ lastEventLog = NoEventLog
    /\ awardedScore = [myWrestler |-> storedMatch.myScore, opponent |-> storedMatch.opponentScore]
    /\ StorageIdle
    /\ CompetitionIdle
    /\ RecorderIdle
    /\ RoutesIdle

NextMatch ==
    \/ SelectMatch
    \/ StartTimer
    \/ PauseTimer
    \/ ResetTimer
    \/ UpdateTimer
    \/ \E s \in ScoringInputs : AddPoints(s[1], s[2], s[3])
    \/ EndMatch
    \/ Back
    \/ \E request \in inflight : PatchMatch(request)
    \/ \E response \in inflight : ReceiveResponse(response)

SpecMatch == InitMatch /\ [][NextMatch]_vars

-----------------------------------------------------------------------------
(* A match under control on which only points are awarded: SpecScoring *)

NextScoring ==
    \/ SelectMatch
    \/ \E s \in ScoringInputs : AddPoints(s[1], s[2], s[3])
    \/ \E request \in inflight : PatchMatch(request)
    \/ \E response \in inflight : ReceiveResponse(response)

SpecScoring == InitMatch /\ [][NextScoring]_vars

-----------------------------------------------------------------------------
(* Teams deleted and data reloaded, from a loaded roster on: SpecData *)

\* rosters the server holds: wrestlers of the two loaded teams, not weighed in
TeamRosterInputs(n) ==
    { [i \in 1..n |-> [id |-> i, teamId |-> t[i], weighIn |-> NoWeighIn]] :
        t \in [1..n -> TeamInputs] }

InitData ==
    /\ WizardMounted
    /\ OrderIdle
    /\ MatchIdle
    /\ competition = NoCompetition
    /\ potentialMatches = <<>>
    /\ generated = FALSE
    /\ storageTeams = LoadedTeams
    /\ \E n \in 0..MaxWrestlers : storageWrestlers \in TeamRosterInputs(n)
    /\ wrestlers = storageWrestlers
    /\ teamDeletes = {}
    /\ CompetitionIdle
    /\ RecorderIdle
    /\ RoutesIdle

NextData ==
    \/ \E id \in TeamInputs : DeleteTeam(id)
    \/ \E request \in teamDeletes : DeleteTeamRoute(request)
    \/ \E response \in teamDeletes : DeleteTeamDone(response)
    \/ LoadData

SpecData == InitData /\ [][NextData]_vars

-----------------------------------------------------------------------------
(* createDualMeet on a form in any state: SpecCreate.  The Next buttons of    *)
(* steps 1 to 3 let only complete forms reach step 4; here the handler's own   *)
(* check decides, whatever the buttons let through.                            *)

InitCreate ==
    /\ dualMeetName \in {"", " ", "Season opener"}
    /\ homeTeamId \in {"", "t1"}
    /\ awayTeamId \in {"", "t2"}
    /\ homeTeamName \in {"", " ", "Tigers"}
    /\ awayTeamName \in {"", "Bears"}
    /\ isHomeTeamCustom = (homeTeamId = "")
    /\ isAwayTeamCustom = (awayTeamId = "")
    /\ gradeLevel = "high-school"
    /\ selectedWeightClasses \in {<<>>, <<106, 113>>}
    /\ startingWeightClass \in {null, 106}
    /\ customWeightClasses = <<"">>
    /\ useCustomWeights = FALSE
    /\ homeTeamOddsOrEvens = "odds"
    /\ currentStep = 4
    /\ teams = LoadedTeams
    /\ dualMeets = <<>>
    /\ dualMeetCreatedCalls = 0
    /\ OrderIdle
    /\ PairingIdle
    /\ MatchIdle
    /\ StorageIdle
    /\ CompetitionIdle
    /\ RecorderIdle
    /\ RoutesIdle

NextCreate == Len(dualMeets) < MaxDualMeets /\ CreateDualMeet

SpecCreate == InitCreate /\ [][NextCreate]_vars

-----------------------------------------------------------------------------
(* A VideoRecorder whose methods are called in any order: SpecRecorder *)

\* sizes of the blobs a MediaRecorder delivers
ChunkSizeInputs == {0, 1, 2}

InitRecorder ==
    /\ WizardMounted
    /\ OrderIdle
    /\ PairingIdle
    /\ MatchIdle
    /\ StorageIdle
    /\ CompetitionIdle
    /\ RecorderIdle
    /\ RoutesIdle

NextRecorder ==
    \/ \E granted \in BOOLEAN : InitializeCamera(granted)
    \/ \E browser \in {"constructor", "start", "recording"} : StartRecording(browser)
    \/ \E size \in ChunkSizeInputs : DataAvailable(size)
    \/ \E size \in ChunkSizeInputs : StopEvents(size)
    \/ StopRecording
    \/ PauseRecording
    \/ ResumeRecording
    \/ Cleanup

SpecRecorder == InitRecorder /\ [][NextRecorder]_vars

-----------------------------------------------------------------------------
(* PATCH requests for stored and for unknown ids: SpecRoutes *)

\* most wrestlers MemStorage holds when the requests arrive
MaxStored == 2

TeamIdInputs == {"t1", "t2", "t9"}

TeamUpdateInputs == {[name |-> "Eagles"], [name |-> "Hawks"]}

WrestlerUpdateInputs ==
    {[weighIn |-> NoWeighIn], [weighIn |-> [recorded |-> TRUE, weightClass |-> "106"]]}

MatchIdInputs == {"m1", "m9"}

MatchUpdateInputs == {CreatedMatch, [CreatedMatch EXCEPT !.myScore = 2]}

InitRoutes ==
    /\ WizardMounted
    /\ OrderIdle
    /\ MatchIdle
    /\ competition = NoCompetition
    /\ potentialMatches = <<>>
    /\ generated = FALSE
    /\ storageTeams = LoadedTeams
    /\ \E n \in 0..MaxStored : storageWrestlers \in TeamRosterInputs(n)
    /\ wrestlers = storageWrestlers
    /\ teamDeletes = {}
    /\ CompetitionIdle
    /\ RecorderIdle
    /\ RoutesIdle

NextRoutes ==
    \/ \E id \in TeamIdInputs, updates \in TeamUpdateInputs : PatchTeamRoute(id, updates)
    \/ \E id \in 1..(MaxStored + 1), updates \in WrestlerUpdateInputs :
          PatchWrestlerRoute(id, updates)
    \/ \E id \in MatchIdInputs, updates \in MatchUpdateInputs : PatchMatchRoute(id, updates)

SpecRoutes == InitRoutes /\ [][NextRoutes]_vars

-----------------------------------------------------------------------------
(* Competitions created and started: SpecCompetition *)

InitCompetition ==
    /\ WizardMounted
    /\ OrderIdle
    /\ PairingIdle
    /\ MatchIdle
    /\ StorageIdle
    /\ CompetitionIdle
    /\ RecorderIdle
    /\ RoutesIdle

\* competitions stored or on their way to the store
CompetitionsUnderway ==
    Len(storageCompetitions)
        + Cardinality({c \in competitionCalls : c.method = "POST" /\ c.phase = "request"})

NextCompetition ==
    \/ CompetitionsUnderway < MaxCompetitions /\ HandleCreateCompetition
    \/ \E request \in competitionCalls : PostCompetition(request)
    \/ \E response \in competitionCalls : CreateCompetitionDone(response)
    \/ \E i \in DOMAIN competitions : HandleStartCompetition(competitions[i].id)
    \/ \E request \in competitionCalls, json \in BOOLEAN : PatchCompetition(request, json)
    \/ \E response \in competitionCalls : StartCompetitionDone(response)

SpecCompetition == InitCompetition /\ [][NextCompetition]_vars

-----------------------------------------------------------------------------
(* Vocabulary of the properties *)

Distinct(s) == \A i, j \in DOMAIN s : i # j => s[i] # s[j]

Count(s, x) == Cardinality({i \in DOMAIN s : s[i] = x})

WeightsOf(order) == [i \in DOMAIN order |-> order[i].weightClass]

HoldersOf(order) == [i \in DOMAIN order |-> order[i].choiceHolder]

\* sorted[startIndex:] ++ sorted[:startIndex], for a starting class in the list
SortedRotation(weightClasses, starting) ==
    LET sorted == SortAsc(weightClasses)
        startIndex == IndexOf(sorted, starting)
    IN  SubSeq(sorted, startIndex + 1, Len(sorted)) \o SubSeq(sorted, 1, startIndex)

\* the weight classes whose bout gives the home team choice in a match order
HomeChoiceClasses(order) ==
    {order[i].weightClass : i \in {j \in DOMAIN order : order[j].choiceHolder = "home"}}

\* a bout order is on screen, or "Create Dual Meet" would store a dual meet
OrderInUse ==
    \/ PreviewShown
    \/ currentStep = 4 /\ ~RequiredFieldsMissing

-----------------------------------------------------------------------------
(* Properties *)

\* C1: for a non-empty list of distinct weight classes and a starting class in it,
\* the computed bout order is as long as the list and holds each of its weight
\* classes exactly once.
C1_BoutOrderIsPermutation ==
    (/\ computed
     /\ Len(argWeightClasses) > 0
     /\ Distinct(argWeightClasses)
     /\ Includes(argWeightClasses, argStartingWeightClass))
    => /\ Len(boutOrder) = Len(argWeightClasses)
       /\ \A w \in WeightInputs :
             Count(WeightsOf(boutOrder), w) = Count(argWeightClasses, w)
       /\ \A i \in DOMAIN boutOrder : boutOrder[i].position = i

C1_Witness ==
    /\ computed
    /\ Len(argWeightClasses) >= 3
    /\ Distinct(argWeightClasses)
    /\ argStartingWeightClass = argWeightClasses[3]
    /\ Len(boutOrder) = Len(argWeightClasses)

\* C2 (as claimed): the bout order shown is the rotation of the ascending-sorted
\* selection that starts at the starting weight class, however the weight classes
\* were supplied.
C2_OrderIsSortedRotation ==
    (PreviewShown /\ Includes(selectedWeightClasses, startingWeightClass))
    => WeightsOf(MatchOrderPreview) =
           SortedRotation(selectedWeightClasses, startingWeightClass)

\* C3 (as claimed): whenever a bout order is shown or a dual meet can be created,
\* bout #1 is the starting weight class.
C3_FirstBoutIsStart ==
    (OrderInUse /\ Len(MatchOrderPreview) > 0)
    => MatchOrderPreview[1].weightClass = startingWeightClass

\* C4: the home team holds choice on the bout at 0-based position i exactly when
\* (odds and i is even) or (evens and i is odd), the away team on every other
\* bout; [106,113,120,126] from 106 with evens gives away, home, away, home.
C4_HomeChoiceByPosition ==
    computed =>
      /\ \A i \in 0..(Len(boutOrder) - 1) :
            /\ boutOrder[i + 1].choiceHolder \in {"home", "away"}
            /\ boutOrder[i + 1].choiceHolder = "home"
                 <=> \/ argChoiceParity = "odds" /\ i % 2 = 0
                     \/ argChoiceParity = "evens" /\ i % 2 = 1
      /\ (/\ argWeightClasses = <<106, 113, 120, 126>>
          /\ argStartingWeightClass = 106
          /\ argChoiceParity = "evens")
         => /\ WeightsOf(boutOrder) = <<106, 113, 120, 126>>
            /\ HoldersOf(boutOrder) = <<"away", "home", "away", "home">>

C4_Witness ==
    /\ computed
    /\ argWeightClasses = <<106, 113, 120, 126>>
    /\ argStartingWeightClass = 106
    /\ argChoiceParity = "evens"
    /\ HoldersOf(boutOrder) = <<"away", "home", "away", "home">>

\* C5 (as claimed): the homeTeamChoiceMatches of every stored dual meet are the
\* weight classes whose bout gives the home team choice in the match order of
\* its weight classes, starting class and parity.
C5_StoredChoiceMatchesPreview ==
    \A k \in DOMAIN dualMeets :
        LET d == dualMeets[k]
        IN  Range(d.homeTeamChoiceMatches) =
                HomeChoiceClasses(MatchOrder(d.weightClasses, d.startingWeightClass,
                                             d.homeTeamOddsOrEvens))

\* C6: in the match order shown, the choice holder of bout N differs from that of
\* bout N+1, for every N from 1 to one less than the number of bouts.
C6_ChoiceAlternates ==
    OrderInUse =>
        \A n \in 1..(Len(MatchOrderPreview) - 1) :
            MatchOrderPreview[n].choiceHolder # MatchOrderPreview[n + 1].choiceHolder

C6_Witness ==
    /\ PreviewShown
    /\ Len(MatchOrderPreview) = 13
    /\ MatchOrderPreview[1].weightClass # selectedWeightClasses[1]
    /\ MatchOrderPreview[13].choiceHolder = MatchOrderPreview[1].choiceHolder

\* C7 (as claimed): a starting weight class that is not among the weight classes
\* is rejected: no bout order is shown for it and no dual meet is stored with it.
C7_ForeignStartRejected ==
    /\ (PreviewShown /\ ~Includes(selectedWeightClasses, startingWeightClass))
       => MatchOrderPreview = <<>>
    /\ \A k \in DOMAIN dualMeets :
          Includes(dualMeets[k].weightClasses, dualMeets[k].startingWeightClass)

\* C8 (as claimed): weight classes with a duplicate entry are rejected: no bout
\* order is shown for them and no dual meet is stored with them.
C8_DuplicatesRejected ==
    /\ (PreviewShown /\ ~Distinct(selectedWeightClasses)) => MatchOrderPreview = <<>>
    /\ \A k \in DOMAIN dualMeets : Distinct(dualMeets[k].weightClasses)

\* C9: with no weight class selected no bout is produced, the wizard cannot leave
\* step 2 towards "Create Dual Meet", createDualMeet stores nothing, and so no
\* stored dual meet has an empty list of weight classes.
C9_EmptySelectionRejected ==
    /\ Len(selectedWeightClasses) = 0
       => /\ MatchOrderPreview = <<>>
          /\ NextStep2Disabled
          /\ RequiredFieldsMissing
          /\ currentStep \in {1, 2}
    /\ \A k \in DOMAIN dualMeets : Len(dualMeets[k].weightClasses) > 0

C9_Witness ==
    /\ selectedWeightClasses = <<>>
    /\ PreviewShown
    /\ MatchOrderPreview = <<>>
    /\ dualMeets = <<>>

\* C11: weight classes [106,113,120,126] from 120 with odds give the bouts
\* 120, 126, 106, 113 with choice holders home, away, home, away.
C11_ExampleFrom120Odds ==
    (/\ computed
     /\ argWeightClasses = <<106, 113, 120, 126>>
     /\ argStartingWeightClass = 120
     /\ argChoiceParity = "odds")
    => /\ WeightsOf(boutOrder) = <<120, 126, 106, 113>>
       /\ HoldersOf(boutOrder) = <<"home", "away", "home", "away">>

C11_Witness ==
    /\ computed
    /\ argWeightClasses = <<106, 113, 120, 126>>
    /\ argStartingWeightClass = 120
    /\ argChoiceParity = "odds"
    /\ boutOrder[1] = [position |-> 1, weightClass |-> 120, choiceHolder |-> "home"]

\* C12 (as claimed): in every state of the wizard the selected weight classes are
\* distinct and sorted ascending.
C12_SelectionSortedDistinct ==
    /\ Distinct(selectedWeightClasses)
    /\ selectedWeightClasses = SortAsc(selectedWeightClasses)

-----------------------------------------------------------------------------
(* Pairings of a dual competition *)

\* the keys under which generateMatches groups the inputs
WeightClassKeys == {"106", "113", "No Weight Class"}

\* a rendered competition of the dual format between exactly two teams
DualOfTwo == generated /\ competition.format = "dual" /\ Len(competition.teamIds) = 2

\* the weighed-in wrestlers (by roster position) of a team in a weight class
ClassOfTeam(teamId, key) ==
    {i \in DOMAIN wrestlers : /\ wrestlers[i].teamId = teamId
                              /\ wrestlers[i].weighIn.recorded
                              /\ WeightClassKey(wrestlers[i]) = key}

PairingsOf(key) == {k \in DOMAIN potentialMatches : potentialMatches[k].weightClass = key}

\* C13: for a dual competition between teams A and B, every weight class with
\* wrestlers of both teams gets exactly one pairing per (wrestler of A, wrestler
\* of B), |A_w| * |B_w| in all, and every pairing has wrestlerA from A and
\* wrestlerB from B in the pairing's weight class.
C13_DualPairsCrossProduct ==
    DualOfTwo =>
        LET A == competition.teamIds[1]
            B == competition.teamIds[2]
        IN  /\ \A key \in WeightClassKeys :
                  (ClassOfTeam(A, key) # {} /\ ClassOfTeam(B, key) # {}) =>
                      /\ Cardinality(PairingsOf(key))
                            = Cardinality(ClassOfTeam(A, key)) * Cardinality(ClassOfTeam(B, key))
                      /\ \A a \in ClassOfTeam(A, key), b \in ClassOfTeam(B, key) :
                            Cardinality({k \in PairingsOf(key) :
                                            /\ potentialMatches[k].wrestlerA = wrestlers[a]
                                            /\ potentialMatches[k].wrestlerB = wrestlers[b]}) = 1
            /\ \A k \in DOMAIN potentialMatches :
                  /\ potentialMatches[k].wrestlerA.teamId = A
                  /\ potentialMatches[k].wrestlerB.teamId = B
                  /\ WeightClassKey(potentialMatches[k].wrestlerA) = potentialMatches[k].weightClass
                  /\ WeightClassKey(potentialMatches[k].wrestlerB) = potentialMatches[k].weightClass

\* two wrestlers of each team in class 106 and the four pairings made of them
C13_Witness ==
    /\ DualOfTwo
    /\ Cardinality(ClassOfTeam(competition.teamIds[1], "106")) = 2
    /\ Cardinality(ClassOfTeam(competition.teamIds[2], "106")) = 2
    /\ Cardinality(PairingsOf("106")) = 4

\* C14: a weight class with no wrestler of one of the two teams gets no pairing.
C14_NoPairingWithoutBothTeams ==
    DualOfTwo =>
        \A key \in WeightClassKeys :
            (\/ ClassOfTeam(competition.teamIds[1], key) = {}
             \/ ClassOfTeam(competition.teamIds[2], key) = {}) => PairingsOf(key) = {}

\* class 106 holds two wrestlers of one team only, class 113 is paired
C14_Witness ==
    /\ DualOfTwo
    /\ Cardinality(ClassOfTeam(competition.teamIds[1], "106")) = 2
    /\ ClassOfTeam(competition.teamIds[2], "106") = {}
    /\ PairingsOf("106") = {}
    /\ PairingsOf("113") # {}

-----------------------------------------------------------------------------
(* The lifecycle of a stored match *)

\* C15 (as claimed): the stored status of a match moves only from pending to
\* active and from active to completed: never to completed without having been
\* active, and never backwards.
C15_StatusOnlyForward ==
    [][storedMatch'.status # storedMatch.status =>
          <<storedMatch.status, storedMatch'.status>>
              \in {<<"pending", "active">>, <<"active", "completed">>}]_vars

\* C16 (as claimed): once the stored status is completed, no step changes the
\* stored status, final result or scores.
C16_CompletedIsTerminal ==
    [][storedMatch.status = "completed" =>
          /\ storedMatch'.status = "completed"
          /\ storedMatch'.finalResult = storedMatch.finalResult
          /\ storedMatch'.myScore = storedMatch.myScore
          /\ storedMatch'.opponentScore = storedMatch.opponentScore]_vars

\* the winner and win types of matchSchema.finalResult
Winners == {"my_wrestler", "opponent"}

WinTypes == {"decision", "pin", "technical_fall", "forfeit", "injury"}

\* the PATCH requests of endMatch among a set of messages
EndMatchRequests(messages) ==
    {m \in messages : m.handler = "endMatch" /\ m.phase = "request"}

\* every final result held anywhere: by the server, the client or a message
ResultsHeld ==
    ({storedMatch.finalResult, matches.finalResult, selectedMatch.finalResult}
        \cup {m.body.finalResult : m \in inflight}) \ {NoResult}

\* C17: every match stored as completed carries a final result naming a winner
\* and a win type; a final result is only ever made by endMatch, with the
\* component's scores of that moment as final score and 180 minus the remaining
\* time as duration.  (No match is stored as completed initially.)
C17_CompletedCarriesFinalResult ==
    [][/\ storedMatch'.status = "completed" =>
            /\ storedMatch'.finalResult # NoResult
            /\ storedMatch'.finalResult.winner \in Winners
            /\ storedMatch'.finalResult.winType \in WinTypes
       /\ \A m \in EndMatchRequests(inflight') \ inflight :
            /\ m.body.status = "completed"
            /\ m.body.finalResult.finalScore
                  = [myWrestler |-> myScore, opponent |-> opponentScore]
            /\ m.body.finalResult.duration[1] * 60 + m.body.finalResult.duration[2]
                  = 180 - currentTime
            /\ m.body.finalResult.duration[2] \in 0..59
       /\ ResultsHeld' \subseteq
            ResultsHeld \cup {m.body.finalResult : m \in EndMatchRequests(inflight') \ inflight}]_vars

\* a match left at 2-1 with one second to go gets a takedown and is ended: stored
\* as completed, 4-1 after 2:59
C17_Witness ==
    /\ storedMatch.status = "completed"
    /\ storedMatch.finalResult.winner = "my_wrestler"
    /\ storedMatch.finalResult.finalScore = [myWrestler |-> 4, opponent |-> 1]
    /\ storedMatch.finalResult.duration = <<2, 59>>

\* C19 (as claimed): the event addPoints logs carries as scoreAfter the scores
\* after the points were added: the scoring side's previous score plus the
\* points, the other side's score unchanged.
C19_ScoreAfterIncludesPoints ==
    [][\A r \in inflight \ inflight' :
          (r.phase = "response" /\ r.handler = "addPoints") =>
              lastEventLog'.scoreAfter =
                  [myWrestler |-> IF r.closure.wrestler = "my_wrestler"
                                  THEN r.closure.myScore + r.closure.points
                                  ELSE r.closure.myScore,
                   opponent |-> IF r.closure.wrestler = "opponent"
                                THEN r.closure.opponentScore + r.closure.points
                                ELSE r.closure.opponentScore]]_vars

-----------------------------------------------------------------------------
(* The teams of a stored dual meet *)

\* C18 (as claimed): every stored dual meet has a home team id different from
\* its away team id.
C18_StoredTeamsDiffer ==
    \A i \in DOMAIN dualMeets : dualMeets[i].homeTeamId # dualMeets[i].awayTeamId

-----------------------------------------------------------------------------
(* Wrestlers of a deleted team *)

TeamIdsOf(ts) == {ts[i].id : i \in DOMAIN ts}

\* C20 (as claimed): once every deleteTeam has completed, no wrestler of a
\* deleted team remains on the client or on the server, and the server holds
\* the wrestlers the client shows.
C20_DeletedTeamLeavesNoWrestlers ==
    teamDeletes = {} =>
        /\ \A i \in DOMAIN wrestlers : wrestlers[i].teamId \in TeamIdsOf(teams)
        /\ \A i \in DOMAIN storageWrestlers :
              storageWrestlers[i].teamId \in TeamIdsOf(storageTeams)
        /\ storageWrestlers = wrestlers

-----------------------------------------------------------------------------
(* Starting a competition *)

\* C21: when handleStartCompetition has run to its end for a competition, the
\* competition is active in MemStorage and in the client's list, and
\* 'Competition started successfully' is the toast only if both hold.
C21_StartMakesActive ==
    [][\A response \in competitionCalls :
          StartCompetitionDone(response) =>
              /\ StatusOf(storageCompetitions', response.id) = "active"
              /\ StatusOf(competitions', response.id) = "active"]_vars

-----------------------------------------------------------------------------
(* Creating the dual meet *)

-----------------------------------------------------------------------------
(* Starting and stopping a recording *)

\* C23: startRecording throws and leaves mediaRecorder and recordedChunks as
\* they are when there is no stream (none initialized, or dropped by cleanup)
\* or when the recorder is not inactive; stopRecording on an absent or
\* inactive recorder changes no field.
C23_RefusedStartChangesNothing ==
    [][/\ (\E browser \in {"constructor", "start", "recording"} : StartRecording(browser))
          /\ (stream = NoStream \/ mediaRecorder \in {"recording", "paused"})
          => /\ recorderResult'.method = "startRecording"
             /\ recorderResult'.error # ""
             /\ mediaRecorder' = mediaRecorder
             /\ recordedChunks' = recordedChunks
       /\ StopRecording /\ mediaRecorder \in {NoMediaRecorder, "inactive"}
          => UNCHANGED <<stream, mediaRecorder, recordedChunks, stopping>>]_vars

\* startRecording was turned down while a recording with a chunk was in progress
C23_Witness ==
    /\ recorderResult = Threw("startRecording", "Recording already in progress")
    /\ mediaRecorder = "recording"
    /\ Len(recordedChunks) >= 1

-----------------------------------------------------------------------------
(* Updates of records that are not stored *)

\* C24: a PATCH of a team, wrestler or match whose id is not stored is
\* answered 500 and leaves the teams, wrestlers, competitions and the match of
\* MemStorage as they are: no record is created.
C24_UnknownIdChangesNothing ==
    [][/\ (\E id \in TeamIdInputs, updates \in TeamUpdateInputs :
              /\ ~Stored(storageTeams, id)
              /\ PatchTeamRoute(id, updates))
          => /\ routeResponse' = [status |-> 500, error |-> "Failed to update team"]
             /\ UNCHANGED <<storageTeams, storageWrestlers, storageCompetitions, storedMatch>>
       /\ (\E id \in 1..(MaxStored + 1), updates \in WrestlerUpdateInputs :
              /\ ~Stored(storageWrestlers, id)
              /\ PatchWrestlerRoute(id, updates))
          => /\ routeResponse' = [status |-> 500, error |-> "Failed to update wrestler"]
             /\ UNCHANGED <<storageTeams, storageWrestlers, storageCompetitions, storedMatch>>
       /\ (\E id \in MatchIdInputs, updates \in MatchUpdateInputs :
              /\ storedMatch.id # id
              /\ PatchMatchRoute(id, updates))
          => /\ routeResponse' = [status |-> 500, error |-> "Failed to update match"]
             /\ UNCHANGED <<storageTeams, storageWrestlers, storageCompetitions, storedMatch>>
      ]_vars

\* an update of a stored team went through and an update of an unknown one was
\* answered 500 afterwards
C24_Witness ==
    /\ routeResponse = [status |-> 500, error |-> "Failed to update team"]
    /\ storageTeams[1].name = "Hawks"
    /\ Len(storageTeams) = 2

-----------------------------------------------------------------------------
(* Scores and timer of the match under control *)

\* C25: while a match is under control and only addPoints is called on it,
\* whether or not the PATCH of an earlier call has completed, myScore and
\* opponentScore are the scores the match started with plus the points
\* awarded to each side.
C25_ScoresAreSumsOfPoints ==
    Controlling =>
        /\ myScore = awardedScore.myWrestler
        /\ opponentScore = awardedScore.opponent

\* the handlers of the timer that send a PATCH
TimerHandlers == {"updateTimer", "pauseTimer", "resetTimer"}

\* C26: the PATCH of a timer tick, of pauseTimer or of resetTimer leaves the
\* stored myScore and opponentScore as they were, and whenever no update is
\* on its way the stored scores are the scores match control shows.
C26_TimerKeepsStoredScores ==
    [][/\ \A request \in inflight :
             request.handler \in TimerHandlers /\ PatchMatch(request)
                => /\ storedMatch'.myScore = storedMatch.myScore
                   /\ storedMatch'.opponentScore = storedMatch.opponentScore
       /\ Controlling' /\ inflight' = {}
             => /\ storedMatch'.myScore = myScore'
                /\ storedMatch'.opponentScore = opponentScore']_vars

\* C27: the remaining time of match control stays within 0..180; a tick takes
\* exactly one second off a running timer above 0 and otherwise, at 0, stops
\* the timer without changing the time; resetTimer sets the time to 180 and
\* stops the timer.
C27_TimeWithinPeriod ==
    [][/\ currentTime' \in 0..PeriodSeconds
       /\ storedMatch'.currentTime \in 0..PeriodSeconds
       /\ UpdateTimer =>
             /\ isRunning
             /\ IF currentTime > 0
                THEN currentTime' = currentTime - 1 /\ isRunning'
                ELSE currentTime' = 0 /\ ~isRunning'
       /\ ResetTimer => currentTime' = PeriodSeconds /\ ~isRunning']_vars

\* the timer ran down to 0 and the tick after that stopped it
C27_Witness ==
    /\ Controlling
    /\ currentTime = 0
    /\ ~isRunning
    /\ lastEventLog.action = "period_start"
    /\ \E message \in inflight : message.handler = "updateTimer" /\ message.body.currentTime = 0

====
